---- MODULE Spec2Model ----
(***************************************************************************)
(* SailCast forecast endpoint: api/forecast.js (two handlers in one file)  *)
(* and its stand-alone CommonJS copy.  One request is modelled from the    *)
(* query string to the terminal response.                                  *)
(*                                                                         *)
(* Units.  JavaScript numbers are modelled by exact integers:              *)
(*   coordinates       1e-4 degree        wind speed (input)  0.1 km/h     *)
(*   knots             1e-7 kt            wave height         1e-9 m       *)
(*   marine wave input 1e-3 m             precipitation       0.1 mm       *)
(* Strings that the code slices or parses are tuples of one-character      *)
(* strings, so that slice/parseInt/parseFloat are computed, not assumed.   *)
(* Hour-record fields t, gs, pr and the day fields label, tempMax, tempMin *)
(* are plain copies of upstream values and are left out.                   *)
(***************************************************************************)
EXTENDS Integers, Sequences, FiniteSets, TLC

VARIABLES variant, query, weatherNet, marineNet, pc, lat, lon, calls,
          weatherRes, marineRes, order, responses, est

vars == <<variant, query, weatherNet, marineNet, pc, lat, lon, calls,
          weatherRes, marineRes, order, responses, est>>

reqVars == <<variant, query, weatherNet, marineNet, pc, lat, lon, calls,
             weatherRes, marineRes, order, responses>>

-----------------------------------------------------------------------------
(* Bounds of the explored inputs                                           *)

MaxHours == 2
MaxDays == 2
MaxMarine == 2
MaxWindIdx == 14

-----------------------------------------------------------------------------
(* JavaScript values                                                       *)

Min(a, b) == IF a < b THEN a ELSE b

\* a number that may be NaN or +-Infinity
JNum(v) == [nan |-> FALSE, inf |-> FALSE, v |-> v]
JNaN == [nan |-> TRUE, inf |-> FALSE, v |-> 0]
JInf(sign) == [nan |-> FALSE, inf |-> TRUE, v |-> sign]

\* an array element that may be null
JNull == [null |-> TRUE, v |-> 0]
JVal(v) == [null |-> FALSE, v |-> v]

IsFinite(n) == ~n.nan /\ ~n.inf

\* JavaScript truthiness of a number: NaN and 0 are falsy
Truthy(n) == ~n.nan /\ (n.inf \/ n.v # 0)

Digits == <<"0", "1", "2", "3", "4", "5", "6", "7", "8", "9">>

IsDigit(c) == \E i \in 1..10 : Digits[i] = c

DigitVal(c) == (CHOOSE i \in 1..10 : Digits[i] = c) - 1

\* String.prototype.slice(a, b) with 0 <= a <= b
Slice(s, a, b) == SubSeq(s, a + 1, Min(b, Len(s)))

StartsWith(s, i, word) ==
    /\ i + Len(word) - 1 <= Len(s)
    /\ SubSeq(s, i, i + Len(word) - 1) = word

RECURSIVE DigitsEnd(_, _)
\* first position >= i of s that holds no digit
DigitsEnd(s, i) ==
    IF i <= Len(s) /\ IsDigit(s[i]) THEN DigitsEnd(s, i + 1) ELSE i

RECURSIVE DigitsValue(_, _, _, _)
\* value of the digits s[i..j-1], read after the accumulator acc
DigitsValue(s, i, j, acc) ==
    IF i >= j THEN acc ELSE DigitsValue(s, i + 1, j, acc * 10 + DigitVal(s[i]))

RECURSIVE SkipSpace(_, _)
SkipSpace(s, i) == IF i <= Len(s) /\ s[i] = " " THEN SkipSpace(s, i + 1) ELSE i

Pow10(n) == CASE n = 0 -> 1 [] n = 1 -> 10 [] n = 2 -> 100 [] n = 3 -> 1000
              [] OTHER -> 10000

InfinityWord == <<"I", "n", "f", "i", "n", "i", "t", "y">>

\* The longest numeric prefix of s: [num |-> the number, end |-> the first
\* position after it].  Decimal literals without exponent, four fraction
\* digits kept (the unit of a coordinate is 1e-4 degree).
NumericPrefix(s) ==
    LET b == SkipSpace(s, 1)
        neg == b <= Len(s) /\ s[b] = "-"
        signed == b <= Len(s) /\ s[b] \in {"-", "+"}
        p == IF signed THEN b + 1 ELSE b
        sgn == IF neg THEN 0 - 1 ELSE 1
        ie == DigitsEnd(s, p)
        hasDot == ie <= Len(s) /\ s[ie] = "."
        fs == IF hasDot THEN ie + 1 ELSE ie
        fe == IF hasDot THEN DigitsEnd(s, fs) ELSE ie
        fk == Min(fe, fs + 4)
        whole == DigitsValue(s, p, ie, 0)
        frac == DigitsValue(s, fs, fk, 0) * Pow10(4 - (fk - fs))
    IN  IF StartsWith(s, p, InfinityWord)
          THEN [num |-> JInf(sgn), end |-> p + 8]
        ELSE IF ie = p /\ fe = fs
          THEN [num |-> JNaN, end |-> b]
        ELSE [num |-> JNum(sgn * (whole * 10000 + frac)),
              end |-> IF hasDot THEN fe ELSE ie]

\* req.query.<name>: absent, or the text of the parameter
Absent == [present |-> FALSE, text |-> <<>>]
Text(s) == [present |-> TRUE, text |-> s]

\* parseFloat(x): undefined is converted to "undefined", which has no
\* numeric prefix
parseFloat(q) == IF ~q.present THEN JNaN ELSE NumericPrefix(q.text).num

\* Number(x) of a string: the whole trimmed text must be a numeric literal,
\* the empty text is 0
Number(s) ==
    LET r == NumericPrefix(s)
    IN  IF SkipSpace(s, 1) > Len(s) THEN JNum(0)
        ELSE IF SkipSpace(s, r.end) > Len(s) THEN r.num
        ELSE JNaN

\* parseInt(s) for the non-negative decimal texts of a timestamp
parseInt(s) ==
    LET b == SkipSpace(s, 1)
        e == DigitsEnd(s, b)
    IN  IF e = b THEN JNaN ELSE JNum(DigitsValue(s, b, e, 0))

\* Math.round of x / d for d > 0 (halves round up)
RoundDiv(x, d) == (2 * x + d) \div (2 * d)

-----------------------------------------------------------------------------
(* Wave estimator                                                          *)

KtsPerKph == 539957

\* ws * 0.539957 with ws in 0.1 km/h, result in 1e-7 kt
Kts(ws) == ws * KtsPerKph

\* the estimator with the slope of the 15-20 kt piece used from 10 kt on
WaveFromKtsSteep(k) ==
    IF k < 50000000 THEN 100000000
    ELSE IF k < 100000000 THEN 200000000
    ELSE IF k < 150000000 THEN 300000000 + (k - 100000000) * 6
    ELSE IF k < 200000000 THEN 500000000 + (k - 150000000) * 6
    ELSE IF k < 300000000 THEN 800000000 + (k - 200000000) * 7
    ELSE 1500000000

\* the piecewise function of the estimator on knots (1e-7 kt -> 1e-9 m)
WaveFromKts(k) ==
    IF k < 50000000 THEN 100000000
    ELSE IF k < 100000000 THEN 200000000
    ELSE IF k < 150000000 THEN 300000000 + (k - 100000000) * 4
    ELSE IF k < 200000000 THEN 500000000 + (k - 150000000) * 6
    ELSE IF k < 300000000 THEN 800000000 + (k - 200000000) * 7
    ELSE 1500000000

estimateWaveHeight(ws) == WaveFromKts(Kts(ws))

-----------------------------------------------------------------------------
(* Hourly grouping and merge                                               *)

\* the three handlers of the repository
ExportsHandler == "module.exports handler of api/forecast.js"
DefaultHandler == "export default handler of api/forecast.js"
StandaloneHandler == "module.exports handler of the stand-alone copy"

MergingHandlers == {DefaultHandler, StandaloneHandler}

WamSource == "ECMWF WAM via Open-Meteo"
EstimatedSource == "Estimated from wind speed"

DefaultPeriod == 5

\* marine && marine.hourly && marine.hourly.wave_height
\*   && marine.hourly.wave_height[i] != null       (i counts from 1 here)
HasWaveHeight(marine, i) ==
    /\ marine.present
    /\ marine.hasHourly
    /\ i <= Len(marine.hourly)
    /\ ~marine.hourly[i].wave_height.null

HasWavePeriod(marine, i) ==
    /\ marine.present
    /\ marine.hasHourly
    /\ i <= Len(marine.hourly)
    /\ ~marine.hourly[i].wave_period.null

\* parseFloat(x.toFixed(2)) of a height in 1e-3 m, result in 1e-9 m
Round2(mm) == RoundDiv(mm, 10) * 10000000

MergedHeight(weather, marine, i) ==
    IF HasWaveHeight(marine, i)
      THEN Round2(marine.hourly[i].wave_height.v)
      ELSE estimateWaveHeight(weather.hourly[i].ws)

\* wave period in 0.1 s, rounded to whole seconds
MergedPeriod(weather, marine, i) ==
    IF HasWavePeriod(marine, i)
      THEN RoundDiv(marine.hourly[i].wave_period.v, 10)
      ELSE DefaultPeriod

\* the thunderstorm flag of hour i
Thunder(v, weather, i) ==
    IF v = StandaloneHandler
      THEN (IF weather.hasCode THEN weather.hourly[i].wc ELSE 0) >= 95
      ELSE FALSE

InOperatingHours(hour) == ~hour.nan /\ hour.v >= 5 /\ hour.v <= 22

HourRecord(v, weather, marine, i) ==
    [h |-> parseInt(Slice(weather.hourly[i].time, 11, 13)).v,
     ws |-> RoundDiv(weather.hourly[i].ws, 10),
     wd |-> weather.hourly[i].wd,
     cl |-> weather.hourly[i].cl,
     wv |-> MergedHeight(weather, marine, i),
     wp |-> MergedPeriod(weather, marine, i),
     ts |-> Thunder(v, weather, i)]

RECURSIVE GroupFrom(_, _, _, _, _)
\* hourlyTimes.forEach(...) from index i on, days being the object built
\* so far (a function from dates to hour lists)
GroupFrom(v, weather, marine, i, days) ==
    IF i > Len(weather.hourly) THEN days
    ELSE LET time == weather.hourly[i].time
             date == Slice(time, 0, 10)
             hour == parseInt(Slice(time, 11, 13))
             d1 == IF date \in DOMAIN days THEN days ELSE days @@ (date :> <<>>)
             d2 == IF InOperatingHours(hour)
                     THEN [d1 EXCEPT ![date] =
                              Append(@, HourRecord(v, weather, marine, i))]
                     ELSE d1
         IN  GroupFrom(v, weather, marine, i + 1, d2)

GroupHours(v, weather, marine) == GroupFrom(v, weather, marine, 1, <<>>)

-----------------------------------------------------------------------------
(* Daily summaries                                                         *)

Compass == <<"N", "NNE", "NE", "ENE", "E", "ESE", "SE", "SSE",
             "S", "SSW", "SW", "WSW", "W", "WNW", "NW", "NNW">>

\* dirs[Math.round(d / 22.5) % 16]
d2c(d) == Compass[(RoundDiv(2 * d, 45) % 16) + 1]

\* Math.round(k * 0.539957) of a speed in whole km/h
kphToKt(k) == RoundDiv(k * KtsPerKph, 1000000)

\* the daylight filter with the bounds of the operating-hours filter
InDaylightWide(r) == r.h >= 5 /\ r.h <= 22

InDaylight(r) == r.h >= 8 /\ r.h <= 18

DayHours(hours) == SelectSeq(hours, InDaylight)

MinWs(dh) == CHOOSE m \in {dh[i].ws : i \in 1..Len(dh)} :
                 \A i \in 1..Len(dh) : m <= dh[i].ws

MaxWs(dh) == CHOOSE m \in {dh[i].ws : i \in 1..Len(dh)} :
                 \A i \in 1..Len(dh) : m >= dh[i].ws

\* the text "<dir> <min>-<max> kts" as its three parts; '' is <<>>
buildWindDesc(hours) ==
    LET dh == DayHours(hours)
    IN  IF Len(hours) = 0 THEN <<>>
        ELSE IF Len(dh) = 0 THEN <<>>
        ELSE <<(<<d2c(dh[(Len(dh) \div 2) + 1].wd)>>),
               kphToKt(MinWs(dh)), kphToKt(MaxWs(dh))>>

\* precipSum in 0.1 mm; cloud mean compared without dividing
buildSummary(hours, precipSum) ==
    LET dh == DayHours(hours)
        sum == LET RECURSIVE S(_)
                   S(i) == IF i > Len(dh) THEN 0 ELSE dh[i].cl + S(i + 1)
               IN  S(1)
        n == Len(dh)
        sky == IF sum > 75 * n THEN "Cloudy"
               ELSE IF sum > 50 * n THEN "Mostly cloudy"
               ELSE IF sum > 25 * n THEN "Partly cloudy"
               ELSE "Sunny"
        rain == IF precipSum > 50 THEN " Heavy rain expected."
                ELSE IF precipSum > 20 THEN " Showers likely."
                ELSE IF precipSum > 5 THEN " Slight chance of showers."
                ELSE ""
    IN  IF n = 0 THEN <<>> ELSE <<sky, ".", rain>>

\* windDesc of the stand-alone handler: start and end direction
StandaloneWindDesc(hours) ==
    LET dh == DayHours(hours)
        sd == d2c(dh[1].wd)
        ed == d2c(dh[Len(dh)].wd)
    IN  IF Len(dh) = 0 THEN <<>>
        ELSE <<(IF sd = ed THEN <<sd>> ELSE <<sd, ed>>),
               kphToKt(MinWs(dh)), kphToKt(MaxWs(dh))>>

StandaloneSummary(hours, pSum) ==
    LET dh == DayHours(hours)
        sum == LET RECURSIVE S(_)
                   S(i) == IF i > Len(dh) THEN 0 ELSE dh[i].cl + S(i + 1)
               IN  S(1)
        n == Len(dh)
        \* avgCl is 0 for an empty window
        sky == IF n > 0 /\ sum > 75 * n THEN "Cloudy"
               ELSE IF n > 0 /\ sum > 50 * n THEN "Mostly cloudy"
               ELSE IF n > 0 /\ sum > 25 * n THEN "Partly cloudy"
               ELSE "Sunny"
        rain == IF pSum > 100 THEN " Heavy rain."
                ELSE IF pSum > 50 THEN " Rain likely."
                ELSE IF pSum > 20 THEN " Showers likely."
                ELSE IF pSum > 5 THEN " Chance of showers."
                ELSE ""
        hasTs == \E i \in 1..n : dh[i].ts
    IN  <<sky, ".", rain, IF hasTs THEN " Thunderstorm risk." ELSE "">>

\* the day's hours looked up without the date: the first group built
HoursOfFirstGroup(days, date) ==
    IF DOMAIN days = {} THEN <<>>
    ELSE days[CHOOSE d \in DOMAIN days : \A e \in DOMAIN days : d = e \/ d # e]

\* days[date] || { date, hours: [] }
HoursOf(days, date) == IF date \in DOMAIN days THEN days[date] ELSE <<>>

DaySummary(v, days, day) ==
    LET hours == HoursOf(days, day.time)
    IN  [date |-> day.time,
         windDesc |-> IF v = StandaloneHandler THEN StandaloneWindDesc(hours)
                      ELSE buildWindDesc(hours),
         summary |-> IF v = StandaloneHandler
                       THEN StandaloneSummary(hours, day.precip)
                       ELSE buildSummary(hours, day.precip),
         hours |-> hours]

\* weather.daily.time.map(...)
Forecast(v, weather, marine) ==
    LET days == GroupHours(v, weather, marine)
    IN  [i \in 1..Len(weather.daily) |-> DaySummary(v, days, weather.daily[i])]

-----------------------------------------------------------------------------
(* Upstream payloads                                                       *)

D1 == <<"2", "0", "2", "6", "-", "0", "2", "-", "1", "0">>
D2 == <<"2", "0", "2", "6", "-", "0", "2", "-", "1", "1">>
D3 == <<"2", "0", "2", "6", "-", "0", "2", "-", "1", "2">>

\* "<date>Thh:00"
At(date, h1, h2) == date \o <<"T", h1, h2, ":", "0", "0">>

\* the hourly time grid the sample frames are cut from, in upstream order;
\* the last entry is a malformed timestamp without an hour
MasterTimes == <<At(D1, "0", "4"), At(D1, "0", "6"), At(D1, "1", "0"),
                 At(D1, "1", "8"), At(D1, "2", "3"), At(D2, "1", "2"), D3>>

TimeIdx(time) == CHOOSE j \in 1..Len(MasterTimes) : MasterTimes[j] = time

Calm == [ws |-> 93, wd |-> 10, cl |-> 20, wc |-> 0]
Storm == [ws |-> 407, wd |-> 200, cl |-> 90, wc |-> 95]
Profiles == {Calm, Storm}

HourEntry(time, p) ==
    [time |-> time, ws |-> p.ws, wd |-> p.wd, cl |-> p.cl, wc |-> p.wc]

RECURSIVE FramesOfLen(_)
\* hourly frames of n entries with increasing timestamps
FramesOfLen(n) ==
    IF n = 0 THEN {<<>>}
    ELSE UNION {{Append(f, HourEntry(MasterTimes[j], p)) :
                    j \in {k \in 1..Len(MasterTimes) :
                              f = <<>> \/ k > TimeIdx(f[Len(f)].time)},
                    p \in Profiles} : f \in FramesOfLen(n - 1)}

Frames == UNION {FramesOfLen(n) : n \in 0..MaxHours}

DayEntries == {[time |-> D1, precip |-> 0], [time |-> D2, precip |-> 60],
               [time |-> D3, precip |-> 120]}

RECURSIVE DailyOfLen(_)
\* daily arrays of n distinct dates, in any order
DailyOfLen(n) ==
    IF n = 0 THEN {<<>>}
    ELSE UNION {{Append(d, e) :
                    e \in {x \in DayEntries :
                              \A i \in 1..Len(d) : d[i].time # x.time}} :
                 d \in DailyOfLen(n - 1)}

Dailies == UNION {DailyOfLen(n) : n \in 0..MaxDays}

WeatherBody(hourly, daily, hasCode) ==
    [present |-> TRUE, error |-> FALSE, hasHourly |-> TRUE,
     hasCode |-> hasCode, hourly |-> hourly, daily |-> daily]

\* JSON null, {error: true, reason: ...} and {} from the primary provider
NullWeather == [present |-> FALSE, error |-> FALSE, hasHourly |-> FALSE,
                hasCode |-> FALSE, hourly |-> <<>>, daily |-> <<>>]
ErrorWeather == [NullWeather EXCEPT !.present = TRUE, !.error = TRUE]
EmptyWeather == [NullWeather EXCEPT !.present = TRUE]

Swell == [wave_height |-> JVal(1234), wave_period |-> JVal(74)]
Gap == [wave_height |-> JNull, wave_period |-> JNull]
MarineEntries == {Swell, Gap}

RECURSIVE MarineOfLen(_)
MarineOfLen(n) ==
    IF n = 0 THEN {<<>>}
    ELSE UNION {{Append(m, e) : e \in MarineEntries} : m \in MarineOfLen(n - 1)}

MarineHourlies == UNION {MarineOfLen(n) : n \in 0..MaxMarine}

MarineBody(hourly) ==
    [present |-> TRUE, error |-> FALSE, hasHourly |-> TRUE, hourly |-> hourly]

NullMarine == [present |-> FALSE, error |-> FALSE, hasHourly |-> FALSE,
               hourly |-> <<>>]
ErrorMarine == [NullMarine EXCEPT !.present = TRUE, !.error = TRUE]

\* what the network delivers for one fetch: the fetch fails, or a response
\* with an HTTP status whose body is or is not JSON
NetFail(none) == [net |-> "fail", http |-> 0, json |-> FALSE, body |-> none]
NetText(http, none) == [net |-> "ok", http |-> http, json |-> FALSE, body |-> none]
NetJson(http, body) == [net |-> "ok", http |-> http, json |-> TRUE, body |-> body]

SampleWeatherBodies ==
    {WeatherBody(<<>>, <<[time |-> D1, precip |-> 0]>>, TRUE),
     WeatherBody(<<HourEntry(MasterTimes[3], Calm), HourEntry(MasterTimes[4], Storm)>>,
                 <<[time |-> D1, precip |-> 60], [time |-> D2, precip |-> 0]>>, TRUE),
     WeatherBody(<<HourEntry(MasterTimes[2], Storm), HourEntry(MasterTimes[6], Calm)>>,
                 <<[time |-> D2, precip |-> 120]>>, FALSE)}

WeatherNets ==
    {NetFail(NullWeather), NetText(502, NullWeather), NetJson(400, ErrorWeather),
     NetJson(200, NullWeather), NetJson(200, EmptyWeather)}
       \cup {NetJson(200, b) : b \in SampleWeatherBodies}

MarineNets ==
    {NetFail(NullMarine), NetText(500, NullMarine), NetJson(400, ErrorMarine),
     NetJson(200, NullMarine), NetJson(500, MarineBody(<<Swell, Swell>>))}
       \cup {NetJson(200, MarineBody(h)) : h \in MarineHourlies}

\* the richer inputs for the merge and the daily summaries
FrameWeatherNets ==
    {NetJson(200, WeatherBody(f, d, c)) : f \in Frames, d \in Dailies, c \in {TRUE}}

FrameMarineNets ==
    {NetFail(NullMarine)} \cup {NetJson(200, MarineBody(h)) : h \in MarineHourlies}

Queries ==
    {[lat |-> Absent, lon |-> Absent],
     [lat |-> Text(<<"a", "b", "c">>), lon |-> Absent],
     [lat |-> Absent, lon |-> Text(<<"1", "e">>)],
     [lat |-> Text(<<"0">>), lon |-> Text(<<"0">>)],
     [lat |-> Text(<<"1", "2", ".", "5">>), lon |-> Text(<<"-", "3", ".", "2", "5">>)],
     [lat |-> Text(<<"1", "2", "a", "b">>), lon |-> Text(<<"1", "4", "4", ".", "9", "7", "4", "1">>)],
     [lat |-> Text(InfinityWord), lon |-> Text(<<"1">>)]}

-----------------------------------------------------------------------------
(* The request                                                             *)

DefaultLat == 0 - 378676
DefaultLon == 1449741

\* parseFloat(req.query.x) || dflt
ParseOrDefault(q, dflt) ==
    IF Truthy(parseFloat(q)) THEN parseFloat(q) ELSE JNum(dflt)

\* Number(req.query.x ?? dflt)
NumberOrDefault(q, dflt) == IF q.present THEN Number(q.text) ELSE JNum(dflt)

Coordinate(v, q, dflt) ==
    IF v = ExportsHandler THEN NumberOrDefault(q, dflt) ELSE ParseOrDefault(q, dflt)

Pending(none) == [status |-> "pending", value |-> none]

\* fetch(url).then(r => r.json()): the HTTP status is not looked at
Settled(n, none) ==
    IF n.net = "ok" /\ n.json
      THEN [status |-> "fulfilled", value |-> n.body]
      ELSE [status |-> "rejected", value |-> none]

\* Promise.all in place of Promise.allSettled: resolves on the first rejection
FailFast(w, m) ==
    \/ w.status = "rejected"
    \/ m.status = "rejected"
    \/ (w.status # "pending" /\ m.status # "pending")

\* Promise.allSettled resolves when neither promise is pending
AllSettled(w, m) == w.status # "pending" /\ m.status # "pending"

\* res.status === 'fulfilled' ? res.value : null
ValueOrNull(r, none) == IF r.status = "fulfilled" THEN r.value ELSE none

NoForecast == <<>>

ErrorResponse(la, lo) ==
    [status |-> 500, error |-> "Failed to fetch forecast", hasForecast |-> FALSE,
     forecast |-> NoForecast, marine_source |-> "", location |-> [lat |-> la, lon |-> lo],
     hasLocation |-> FALSE]

\* the body of try { ... } after the await, and the catch
Respond(v, la, lo, wRes, mRes) ==
    LET weather == ValueOrNull(wRes, NullWeather)
        marine == ValueOrNull(mRes, NullMarine)
    IN  IF ~weather.present \/ weather.error THEN ErrorResponse(la, lo)
        \* weather.hourly.time of a payload without hourly: TypeError
        ELSE IF ~weather.hasHourly THEN ErrorResponse(la, lo)
        ELSE [status |-> 200, error |-> "", hasForecast |-> TRUE,
              forecast |-> Forecast(v, weather, marine),
              marine_source |-> IF marine.present /\ ~marine.error
                                  THEN WamSource ELSE EstimatedSource,
              location |-> [lat |-> la, lon |-> lo],
              hasLocation |-> TRUE]

\* res.status(200).json({meta: {lat, lon, ...}, hourly: weather.hourly})
ExportsResponse(la, lo) ==
    [status |-> 200, error |-> "", hasForecast |-> FALSE,
     forecast |-> NoForecast, marine_source |-> "", location |-> [lat |-> la, lon |-> lo],
     hasLocation |-> TRUE]

Call(provider, la, lo) == [provider |-> provider, lat |-> la, lon |-> lo]

IdleEst == [phase |-> "idle", w1 |-> 0, w2 |-> 0, k |-> 0,
            e1 |-> 0, e2 |-> 0, ek |-> 0]

InitWith(variants, queries, wNets, mNets) ==
    /\ variant \in variants
    /\ query \in queries
    /\ weatherNet \in wNets
    /\ marineNet \in mNets
    /\ pc = "start"
    /\ lat = JNaN
    /\ lon = JNaN
    /\ calls = <<>>
    /\ weatherRes = Pending(NullWeather)
    /\ marineRes = Pending(NullMarine)
    /\ order = <<>>
    /\ responses = <<>>
    /\ est = IdleEst

Init == InitWith({ExportsHandler, DefaultHandler, StandaloneHandler},
                 Queries, WeatherNets, MarineNets)

InitFrames == InitWith({ExportsHandler, DefaultHandler, StandaloneHandler},
                       {[lat |-> Absent, lon |-> Absent]},
                       FrameWeatherNets, FrameMarineNets)

\* the handler runs up to its first await: coordinates parsed, fetches issued
Begin ==
    /\ pc = "start"
    /\ LET la == Coordinate(variant, query.lat, DefaultLat)
           lo == Coordinate(variant, query.lon, DefaultLon)
       IN  /\ lat' = la
           /\ lon' = lo
           /\ calls' = IF variant = ExportsHandler
                         THEN <<Call("weather", la, lo)>>
                         ELSE <<Call("weather", la, lo), Call("marine", la, lo)>>
    /\ pc' = "awaiting"
    /\ UNCHANGED <<variant, query, weatherNet, marineNet, weatherRes, marineRes,
                   order, responses, est>>

\* the primary fetch (and its json()) settles
SettleWeather ==
    /\ pc = "awaiting"
    /\ weatherRes.status = "pending"
    /\ weatherRes' = Settled(weatherNet, NullWeather)
    /\ order' = Append(order, "weather")
    /\ UNCHANGED <<variant, query, weatherNet, marineNet, pc, lat, lon, calls,
                   marineRes, responses, est>>

\* the marine fetch (and its json()) settles
SettleMarine ==
    /\ pc = "awaiting"
    /\ variant \in MergingHandlers
    /\ marineRes.status = "pending"
    /\ marineRes' = Settled(marineNet, NullMarine)
    /\ order' = Append(order, "marine")
    /\ UNCHANGED <<variant, query, weatherNet, marineNet, pc, lat, lon, calls,
                   weatherRes, responses, est>>

\* the await on Promise.allSettled resumes: the rest of the handler
Finish ==
    /\ pc = "awaiting"
    /\ variant \in MergingHandlers
    /\ AllSettled(weatherRes, marineRes)
    /\ responses' = Append(responses, Respond(variant, lat, lon, weatherRes, marineRes))
    /\ pc' = "done"
    /\ UNCHANGED <<variant, query, weatherNet, marineNet, lat, lon, calls,
                   weatherRes, marineRes, order, est>>

\* the handler without try/catch resumes after its two awaits: a rejection,
\* or weather.hourly of null, leaves the handler as an exception
FinishExports ==
    /\ pc = "awaiting"
    /\ variant = ExportsHandler
    /\ weatherRes.status # "pending"
    /\ IF weatherRes.status = "rejected" \/ ~weatherRes.value.present
         THEN /\ pc' = "escaped"
              /\ responses' = responses
         ELSE /\ pc' = "done"
              /\ responses' = Append(responses, ExportsResponse(lat, lon))
    /\ UNCHANGED <<variant, query, weatherNet, marineNet, lat, lon, calls,
                   weatherRes, marineRes, order, est>>

Next == Begin \/ SettleWeather \/ SettleMarine \/ Finish \/ FinishExports

Spec == Init /\ [][Next]_vars

SpecFrames == InitFrames /\ [][Next]_vars

-----------------------------------------------------------------------------
(* The estimator on its own                                                *)

\* wind speeds in 0.1 km/h: a grid, and the speeds next to each breakpoint
WindSamples ==
    {i * 50 : i \in 0..MaxWindIdx}
      \cup {92, 93, 185, 186, 277, 278, 370, 371, 555, 556}

\* knots in 1e-7 kt: each breakpoint and the value just below it
KnotSamples ==
    {0, 49999999, 50000000, 99999999, 100000000, 149999999, 150000000,
     199999999, 200000000, 299999999, 300000000, 400000000}

InitEst ==
    /\ est \in [phase : {"input"}, w1 : WindSamples, w2 : WindSamples,
                k : KnotSamples, e1 : {0}, e2 : {0}, ek : {0}]
    /\ variant = DefaultHandler
    /\ query = [lat |-> Absent, lon |-> Absent]
    /\ weatherNet = NetFail(NullWeather)
    /\ marineNet = NetFail(NullMarine)
    /\ pc = "idle"
    /\ lat = JNaN
    /\ lon = JNaN
    /\ calls = <<>>
    /\ weatherRes = Pending(NullWeather)
    /\ marineRes = Pending(NullMarine)
    /\ order = <<>>
    /\ responses = <<>>

\* the estimator is applied to the two wind speeds and to the knot value
Estimate ==
    /\ est.phase = "input"
    /\ est' = [est EXCEPT !.phase = "output",
                          !.e1 = estimateWaveHeight(est.w1),
                          !.e2 = estimateWaveHeight(est.w2),
                          !.ek = WaveFromKts(est.k)]
    /\ UNCHANGED reqVars

NextEst == Estimate

SpecEst == InitEst /\ [][NextEst]_vars

-----------------------------------------------------------------------------
(* Properties                                                              *)

Resp == responses[1]

Finished == pc \in {"done", "escaped"}

HttpSuccess(n) == n.http >= 200 /\ n.http <= 299

\* the primary call failed: rejection, non-success status, error payload,
\* or no hourly time array
PrimaryFailed ==
    \/ weatherNet.net = "fail"
    \/ ~weatherNet.json
    \/ ~HttpSuccess(weatherNet)
    \/ ~weatherNet.body.present
    \/ weatherNet.body.error
    \/ ~weatherNet.body.hasHourly

\* the marine call failed: rejection, non-success status or unreadable body
MarineFailed ==
    \/ marineNet.net = "fail"
    \/ ~marineNet.json
    \/ ~HttpSuccess(marineNet)

\* the hourly index a record of the day `date` with hour h was built from
SourceIdx(hourly, date, h) ==
    CHOOSE j \in 1..Len(hourly) :
        /\ Slice(hourly[j].time, 0, 10) = date
        /\ parseInt(Slice(hourly[j].time, 11, 13)) = JNum(h)

HasSource(hourly, date, h) ==
    \E j \in 1..Len(hourly) :
        /\ Slice(hourly[j].time, 0, 10) = date
        /\ parseInt(Slice(hourly[j].time, 11, 13)) = JNum(h)

\* C1: whenever the primary call fails, a handler that makes both calls
\* responds 502 with an error body and no forecast, whatever the marine
\* call did.
C1_PrimaryFailureIs502 ==
    (variant \in MergingHandlers /\ Finished /\ PrimaryFailed)
      => /\ Len(responses) = 1
         /\ Resp.status = 502
         /\ Resp.error # ""
         /\ ~Resp.hasForecast

\* C2: whenever the primary call succeeds and the marine call fails in any
\* way, the response is 200 with a forecast, marine_source says the wave
\* data was estimated, and every hour has the estimator's wave height and
\* wave period 5.
C2_MarineFailureIsEstimated ==
    (variant \in MergingHandlers /\ Finished /\ ~PrimaryFailed /\ MarineFailed)
      => /\ Len(responses) = 1
         /\ Resp.status = 200
         /\ Resp.hasForecast
         /\ Resp.marine_source = EstimatedSource
         /\ \A d \in 1..Len(Resp.forecast) :
              \A k \in 1..Len(Resp.forecast[d].hours) :
                 LET rec == Resp.forecast[d].hours[k]
                     hourly == weatherNet.body.hourly
                     j == SourceIdx(hourly, Resp.forecast[d].date, rec.h)
                 IN  /\ rec.wv = estimateWaveHeight(hourly[j].ws)
                     /\ rec.wp = DefaultPeriod

\* a parameter that is present but does not parse to a finite number
InvalidParam(q) == q.present /\ ~IsFinite(parseFloat(q))

\* C3: a request whose lat or lon is present but does not parse to a finite
\* number gets a 400 response with the error field set and no forecast, and
\* no exception escapes the handler.
C3_InvalidCoordinateIs400 ==
    (variant \in MergingHandlers /\ Finished
       /\ (InvalidParam(query.lat) \/ InvalidParam(query.lon)))
      => /\ pc = "done"
         /\ Len(responses) = 1
         /\ Resp.status = 400
         /\ Resp.error # ""
         /\ ~Resp.hasForecast

\* C9: every request ends with exactly one response, no exception escapes
\* the handler, and each upstream provider is called at most once.
C9_OneTerminalResponse ==
    /\ pc # "escaped"
    /\ Len(responses) <= 1
    /\ (Finished => Len(responses) = 1)
    /\ \A a, b \in 1..Len(calls) : calls[a].provider = calls[b].provider => a = b

ValidParam(q) == q.present /\ IsFinite(parseFloat(q))

\* C10: whenever the client supplies lat and lon that parse to finite
\* numbers, the value 0 included, the upstream calls are made for exactly
\* those values and the location of the response equals them.
C10_SuppliedCoordinateIsUsed ==
    (variant \in MergingHandlers /\ pc # "start"
       /\ ValidParam(query.lat) /\ ValidParam(query.lon))
      => /\ \A c \in 1..Len(calls) :
              /\ calls[c].lat = parseFloat(query.lat)
              /\ calls[c].lon = parseFloat(query.lon)
         /\ (pc = "done" /\ Resp.hasLocation)
              => Resp.location = [lat |-> parseFloat(query.lat),
                                  lon |-> parseFloat(query.lon)]

\* C8: a handler that makes both calls never responds before both have
\* settled, whichever settles first, and its response is the one determined
\* by the two outcomes alone: a rejected call leaves the other call's result
\* in place.
C8_SettleBothThenInspect ==
    variant \in MergingHandlers
      => /\ Len(responses) > 0
              => /\ Len(order) = 2
                 /\ weatherRes.status # "pending"
                 /\ marineRes.status # "pending"
         /\ pc = "done"
              => /\ Len(responses) = 1
                 /\ Resp = Respond(variant,
                                   Coordinate(variant, query.lat, DefaultLat),
                                   Coordinate(variant, query.lon, DefaultLon),
                                   Settled(weatherNet, NullWeather),
                                   Settled(marineNet, NullMarine))
                 /\ (~PrimaryFailed) => Resp.status = 200

\* the marine call was rejected first, the primary call fulfilled after it,
\* and the forecast was still sent
C8_Witness ==
    /\ variant \in MergingHandlers
    /\ pc = "done"
    /\ order = <<"marine", "weather">>
    /\ marineRes.status = "rejected"
    /\ weatherRes.status = "fulfilled"
    /\ Resp.status = 200
    /\ Len(Resp.forecast) > 0

\* C7: the estimator is non-decreasing in the wind speed, and on knots it
\* gives 0.1 below 5 kt, 0.2 at 5 kt, 0.3 at 10 kt, 0.5 at 15 kt, 0.8 at
\* 20 kt and 1.5 from 30 kt on.
C7_EstimatorMonotone ==
    est.phase = "output"
      => /\ est.w1 < est.w2 => est.e1 <= est.e2
         /\ est.k < 50000000 => est.ek = 100000000
         /\ est.k = 50000000 => est.ek = 200000000
         /\ est.k = 100000000 => est.ek = 300000000
         /\ est.k = 150000000 => est.ek = 500000000
         /\ est.k = 200000000 => est.ek = 800000000
         /\ est.k >= 300000000 => est.ek = 1500000000

\* two speeds on either side of the 15 kt breakpoint were estimated, and the
\* knot value was the 10 kt breakpoint
C7_Witness ==
    /\ est.phase = "output"
    /\ est.w1 = 277
    /\ est.w2 = 278
    /\ est.e1 < est.e2
    /\ est.k = 100000000
    /\ est.ek = 300000000

\* the payloads the forecast of the response was built from
Weather == weatherNet.body
Marine == ValueOrNull(Settled(marineNet, NullMarine), NullMarine)

HasForecast == pc = "done" /\ Len(responses) = 1 /\ Resp.hasForecast

\* C4: an hour record carries the marine wave height of its index, rounded
\* to 2 decimals, if the marine frame is present, as long as the hourly time
\* array, and non-null at that index; in every other case it carries the
\* estimator's value for the wind speed of that index.
C4_MergePrecedence ==
    HasForecast
      => \A d \in 1..Len(Resp.forecast) :
           \A k \in 1..Len(Resp.forecast[d].hours) :
              LET rec == Resp.forecast[d].hours[k]
                  j == SourceIdx(Weather.hourly, Resp.forecast[d].date, rec.h)
                  aligned == /\ Marine.present
                             /\ Marine.hasHourly
                             /\ Len(Marine.hourly) = Len(Weather.hourly)
                             /\ ~Marine.hourly[j].wave_height.null
              IN  rec.wv = IF aligned
                             THEN Round2(Marine.hourly[j].wave_height.v)
                             ELSE estimateWaveHeight(Weather.hourly[j].ws)

HourOf(entry) == parseInt(Slice(entry.time, 11, 13))

OutsideDaylight(entry) ==
    HourOf(entry).nan \/ HourOf(entry).v < 8 \/ HourOf(entry).v > 18

\* the primary payload with the values of hour j replaced by those of p
WithHour(w, j, p) ==
    [w EXCEPT !.hourly[j] = HourEntry(w.hourly[j].time, p)]

\* the marine payload with the values of hour j replaced by e
WithWave(m, j, e) ==
    IF m.present /\ m.hasHourly /\ j <= Len(m.hourly)
      THEN [m EXCEPT !.hourly[j] = e] ELSE m

\* C5: the hours of every day summary lie in 5..22, and wind description
\* and summary of every day stay the same when the values of an hour
\* outside 8..18 are replaced by any others.
C5_WindowFilters ==
    HasForecast
      => /\ \A d \in 1..Len(Resp.forecast) :
              \A k \in 1..Len(Resp.forecast[d].hours) :
                 /\ Resp.forecast[d].hours[k].h >= 5
                 /\ Resp.forecast[d].hours[k].h <= 22
         /\ \A j \in 1..Len(Weather.hourly) :
              OutsideDaylight(Weather.hourly[j])
                => \A p \in Profiles, e \in MarineEntries :
                      LET other == Forecast(variant, WithHour(Weather, j, p),
                                            WithWave(Marine, j, e))
                      IN  \A d \in 1..Len(Resp.forecast) :
                             /\ other[d].windDesc = Resp.forecast[d].windDesc
                             /\ other[d].summary = Resp.forecast[d].summary

\* a day was summarised that has an hour inside the daylight window and a
\* retained hour outside it
C5_Witness ==
    /\ HasForecast
    /\ \E d \in 1..Len(Resp.forecast) :
          /\ Resp.forecast[d].windDesc # <<>>
          /\ \E k \in 1..Len(Resp.forecast[d].hours) :
                Resp.forecast[d].hours[k].h < 8

\* the hourly indices that fall on the date and into the operating hours
HoursOn(date) ==
    {j \in 1..Len(Weather.hourly) :
        /\ Slice(Weather.hourly[j].time, 0, 10) = date
        /\ InOperatingHours(HourOf(Weather.hourly[j]))}

\* C6: the forecast has one day summary per entry of the daily time array,
\* in the same order and with the same date; every hour record of a day
\* comes from an hourly timestamp whose first 10 characters are that date,
\* and no timestamp yields more than one record; a date without hourly
\* entries has no hours and an empty wind description, and a usable
\* primary payload always yields the forecast.
C6_OneSummaryPerDay ==
    (pc = "done" /\ variant \in MergingHandlers /\ ~PrimaryFailed)
      => /\ HasForecast
         /\ Resp.status = 200
         /\ Len(Resp.forecast) = Len(Weather.daily)
         /\ \A d \in 1..Len(Resp.forecast) :
              LET day == Resp.forecast[d]
              IN  /\ day.date = Weather.daily[d].time
                  /\ Len(day.hours) = Cardinality(HoursOn(day.date))
                  /\ \A k \in 1..Len(day.hours) :
                        HasSource(Weather.hourly, day.date, day.hours[k].h)
                  /\ \A k, l \in 1..Len(day.hours) :
                        day.hours[k].h = day.hours[l].h => k = l
                  /\ HoursOn(day.date) = {}
                        => day.hours = <<>> /\ day.windDesc = <<>>

\* a forecast of two days was sent, one with hours and one whose date has
\* no hourly entry at all
C6_Witness ==
    /\ HasForecast
    /\ Len(Resp.forecast) = 2
    /\ Len(Weather.hourly) = 2
    /\ \E d \in 1..2 : Len(Resp.forecast[d].hours) > 0
    /\ \E d \in 1..2 :
          /\ \A j \in 1..Len(Weather.hourly) :
                Slice(Weather.hourly[j].time, 0, 10) # Resp.forecast[d].date
          /\ Resp.forecast[d].hours = <<>>
          /\ Resp.forecast[d].windDesc = <<>>

====
